---- MODULE Spec2Model ----
(***************************************************************************)
(* Model of the sleep sound-level analysis engine:                         *)
(*   SleepAnalyzer   (src/sleep_analysis/sleep_analyzer.py)                *)
(*   HypothesisTest  (src/sleep_analysis/hypothesis_test.py)               *)
(*                                                                         *)
(* Numbers.  Python works on floats; the model works on exact rationals    *)
(* <<numerator, denominator>> in lowest terms with a positive denominator, *)
(* and <<0, 0>> for NaN.  std() is kept as its square (the sample          *)
(* variance), so 1.5 < std < 4 reads 9/4 < variance < 16.                  *)
(* Dictionaries and data frames are functions from key / column names.     *)
(* Python's None is the value None below.  Dictionary keys carry the       *)
(* English field names of the output contract.                             *)
(***************************************************************************)
EXTENDS Integers, Sequences, FiniteSets, TLC

VARIABLES
    csv,                  \* the file on disk that load_data reads
    threshold_db,         \* SleepAnalyzer.threshold_db
    data,                 \* SleepAnalyzer.data (None or a data frame)
    stats,                \* SleepAnalyzer.stats
    measurement_interval, \* SleepAnalyzer.measurement_interval
    locals,               \* local variables of the last calculate_statistics
    ht_threshold_db,      \* HypothesisTest.threshold_db
    condition_stats,      \* HypothesisTest.condition_stats
    results,              \* HypothesisTest.results
    app,                  \* the application that owns the analyzer, if any
    last                  \* the last call: its name, result and exception

vars == <<csv, threshold_db, data, stats, measurement_interval, locals,
          ht_threshold_db, condition_stats, results, app, last>>

analyzer_vars == <<threshold_db, data, stats, measurement_interval, locals>>

registry_vars == <<ht_threshold_db, condition_stats, results>>

(***************************************************************************)
(* Bounds of the model.                                                    *)
(***************************************************************************)
MaxLen == 2

MaxStreakLen == 10

(***************************************************************************)
(* Python values.                                                          *)
(***************************************************************************)
None == [py_none |-> TRUE]

IsNone(x) == DOMAIN x = {"py_none"}

EmptyDict == [k \in {} |-> 0]

SetKey(d, key, v) == [k \in DOMAIN d \cup {key} |-> IF k = key THEN v ELSE d[k]]

NoException == "no exception"

\* no path: the value of current_file before a file is chosen
NoFile == ""

\* no application: the analyzer is used on its own
NoApp == [analyzer |-> FALSE, current_data |-> None, current_file |-> NoFile,
          threshold |-> 40, running |-> FALSE]

(***************************************************************************)
(* Exact arithmetic.                                                       *)
(***************************************************************************)
Abs(x) == IF x < 0 THEN -x ELSE x

RECURSIVE GCD(_, _)
GCD(a, b) == IF b = 0 THEN a ELSE GCD(b, a % b)

NaN == <<0, 0>>

IsNaN(r) == r[2] = 0

Rat(n, d) ==
    IF d = 0 THEN NaN
    ELSE LET g == GCD(Abs(n), Abs(d))
             s == IF d < 0 THEN -1 ELSE 1
         IN  <<(s * n) \div g, (s * d) \div g>>

Num(n) == <<n, 1>>

RMul(p, q) == IF IsNaN(p) \/ IsNaN(q) THEN NaN ELSE Rat(p[1] * q[1], p[2] * q[2])

RSub(p, q) ==
    IF IsNaN(p) \/ IsNaN(q) THEN NaN ELSE Rat(p[1] * q[2] - q[1] * p[2], p[2] * q[2])

RAdd(p, q) ==
    IF IsNaN(p) \/ IsNaN(q) THEN NaN ELSE Rat(p[1] * q[2] + q[1] * p[2], p[2] * q[2])

RLt(p, q) == ~IsNaN(p) /\ ~IsNaN(q) /\ p[1] * q[2] < q[1] * p[2]

RGe(p, q) == ~IsNaN(p) /\ ~IsNaN(q) /\ p[1] * q[2] >= q[1] * p[2]

RAbs(p) == <<Abs(p[1]), p[2]>>

RDiv(p, q) == IF IsNaN(p) \/ IsNaN(q) THEN NaN ELSE Rat(p[1] * q[2], p[2] * q[1])

\* the sum of a sequence of rationals
RECURSIVE RSum(_)
RSum(rs) == IF rs = <<>> THEN Num(0) ELSE RAdd(rs[1], RSum(Tail(rs)))

\* np.mean of a list: NaN for the empty list
RMean(rs) == RDiv(RSum(rs), Num(Len(rs)))

RECURSIVE SumOver(_, _)
SumOver(f, S) ==
    IF S = {} THEN 0
    ELSE LET i == CHOOSE j \in S : TRUE IN f[i] + SumOver(f, S \ {i})

Count(S) == Cardinality(S)

Max(S) == CHOOSE m \in S : \A x \in S : x <= m

Min(S) == CHOOSE m \in S : \A x \in S : m <= x

Range(s) == {s[i] : i \in DOMAIN s}

\* Series.mean(): NaN over no values.
Mean(x, S) == Rat(SumOver(x, S), Count(S))

\* The square of Series.std() (ddof = 1): NaN over fewer than 2 values.
Variance(x, S) ==
    LET n  == Count(S)
        s1 == SumOver(x, S)
        s2 == SumOver([i \in S |-> x[i] * x[i]], S)
    IN  IF n < 2 THEN NaN ELSE Rat(n * s2 - s1 * s1, n * (n - 1))

(***************************************************************************)
(* Inputs.  A csv file is a data frame with a "dB" column and, when the    *)
(* file has a time column, a "time" column of seconds since midnight       *)
(* (the %H:%M:%S timestamps of load_data); a timestamp that does not parse *)
(* is NaT.                                                                 *)
(***************************************************************************)
\* line 55: errors = 'coerce' turns a timestamp that does not parse into NaT
NaT == -1

IsNaT(t) == t < 0

Levels == {-3, 30, 35, 40, 900}

StreakLevels == {30, 40}

Thresholds == {35, 40}

WindowSizes == {1, 2, 5}

TimeSteps == {1, 1800, 3600, 7200}

SeqsUpTo(S, n) == UNION {[1..k -> S] : k \in 0..n}

TimeColumn(n, step) == [i \in 1..n |-> (i - 1) * step]

CsvFrame(x, step) ==
    IF step = 0 THEN [dB |-> x] ELSE [dB |-> x, time |-> TimeColumn(Len(x), step)]

\* time columns that do not advance: every stamp the same, a recording that
\* runs over midnight, stamps that do not parse, a first stamp that does not
\* parse
IrregularTimeColumns(n) ==
    {[i \in 1..n |-> 600],
     [i \in 1..n |-> IF i = 1 THEN 86399 ELSE i - 2],
     [i \in 1..n |-> NaT],
     [i \in 1..n |-> IF i = 1 THEN NaT ELSE i - 1]}

RegularCsvFiles ==
    {CsvFrame(x, step) : x \in SeqsUpTo(Levels, MaxLen), step \in TimeSteps \cup {0}}

IrregularCsvFiles ==
    UNION {{[dB |-> x, time |-> t] : t \in IrregularTimeColumns(Len(x))} :
              x \in SeqsUpTo(Levels, MaxLen)}

CsvFiles == RegularCsvFiles \cup IrregularCsvFiles

StreakCsvFiles == {CsvFrame(x, 5) : x \in SeqsUpTo(StreakLevels, MaxStreakLen)}

(***************************************************************************)
(* SleepAnalyzer.load_data                                                 *)
(***************************************************************************)
NRows(df) == Len(df["dB"])

\* a variant of InferInterval that reads a difference that is not positive
\* as a recording that runs over midnight
InferIntervalOverMidnight(df) ==
    IF "time" \in DOMAIN df /\ NRows(df) > 1
    THEN LET t1 == df["time"][1]
             t2 == df["time"][2]
         IN  IF IsNaT(t1) \/ IsNaT(t2) THEN 1
             ELSE IF t2 - t1 > 0 THEN t2 - t1 ELSE t2 - t1 + 86400
    ELSE 1

\* lines 63-75: the interval is the difference of the first two timestamps
\* when the frame has a time column, more than one row and the difference is
\* positive, and 1 otherwise.  A difference with NaT is NaT, whose
\* total_seconds() is nan, and nan > 0 is false.
InferInterval(df) ==
    IF "time" \in DOMAIN df /\ NRows(df) > 1
    THEN LET t1 == df["time"][1]
             t2 == df["time"][2]
         IN  IF IsNaT(t1) \/ IsNaT(t2) THEN 1
             ELSE IF t2 - t1 > 0 THEN t2 - t1 ELSE 1
    ELSE 1

\* read_csv either yields the frame or raises; the exception is caught and
\* load_data returns None without touching the analyzer.
load_data(readable) ==
    /\ IF readable
       THEN /\ measurement_interval' = InferInterval(csv)
            /\ data' = csv
            /\ last' = [op |-> "load_data", arg |-> readable, raised |-> NoException, ret |-> csv]
       ELSE /\ UNCHANGED <<measurement_interval, data>>
            /\ last' = [op |-> "load_data", arg |-> readable, raised |-> NoException, ret |-> None]
    /\ UNCHANGED <<csv, threshold_db, stats, locals, registry_vars, app>>

(***************************************************************************)
(* SleepAnalyzer.preprocess_data                                           *)
(***************************************************************************)
RemWindow == 60

\* a variant of RollingWindow: w div 2 rows on either side of row i
RollingWindowSymmetric(i, n, w) ==
    {j \in 1..n : i - (w \div 2) <= j /\ j <= i + (w \div 2)}

\* Series.rolling(window = w, center = True): the rows of the window of row
\* i, clipped to the series; the window ends (w - 1) div 2 rows after i.
RollingWindow(i, n, w) ==
    LET offset == (w - 1) \div 2
    IN  {j \in 1..n : i + offset - w + 1 <= j /\ j <= i + offset}

\* a variant of RollingMean with the default min_periods (the window size)
RollingMeanFullWindow(x, w) ==
    [i \in 1..Len(x) |->
        LET S == RollingWindow(i, Len(x), w)
        IN  IF Count(S) >= w THEN Mean(x, S) ELSE NaN]

\* rolling(...).mean() with min_periods = 1
RollingMean(x, w) ==
    [i \in 1..Len(x) |->
        LET S == RollingWindow(i, Len(x), w)
        IN  IF Count(S) >= 1 THEN Mean(x, S) ELSE NaN]

\* the square of rolling(...).std() with min_periods = 1
RollingVariance(x, w) ==
    [i \in 1..Len(x) |-> Variance(x, RollingWindow(i, Len(x), w))]

\* a variant of NoiseFlags: strictly above the threshold
NoiseFlagsStrict(x, thr) == [i \in 1..Len(x) |-> x[i] > thr]

\* line 110
NoiseFlags(x, thr) == [i \in 1..Len(x) |-> x[i] >= thr]

\* a variant of RemFlags whose bounds on the deviation are not strict
RemFlagsClosed(x) ==
    LET window_std == RollingVariance(x, RemWindow)
        avg_db     == Mean(x, 1..Len(x))
    IN  [i \in 1..Len(x) |->
            /\ RLt(Num(x[i]), avg_db)
            /\ RGe(window_std[i], Rat(9, 4))
            /\ RGe(Num(16), window_std[i])]

\* lines 114-116: (dB < avg_db) & (window_std > 1.5) & (window_std < 4)
RemFlags(x) ==
    LET window_std == RollingVariance(x, RemWindow)
        avg_db     == Mean(x, 1..Len(x))
    IN  [i \in 1..Len(x) |->
            /\ RLt(Num(x[i]), avg_db)
            /\ RLt(Rat(9, 4), window_std[i])
            /\ RLt(window_std[i], Num(16))]

\* a variant of Preprocess that keeps the is_noise column a frame already has
PreprocessKeepFlags(df, thr, window_size) ==
    LET x  == df["dB"]
        d1 == SetKey(df, "dB_smoothed", RollingMean(x, window_size))
        d2 == IF "is_noise" \in DOMAIN df THEN d1
              ELSE SetKey(d1, "is_noise", NoiseFlags(x, thr))
    IN  SetKey(d2, "is_rem", RemFlags(x))

\* lines 103-116
Preprocess(df, thr, window_size) ==
    LET x  == df["dB"]
        d1 == SetKey(df, "dB_smoothed", RollingMean(x, window_size))
        d2 == SetKey(d1, "is_noise", NoiseFlags(x, thr))
    IN  SetKey(d2, "is_rem", RemFlags(x))

preprocess_data(window_size) ==
    /\ IF IsNone(data)
       THEN UNCHANGED data
       ELSE data' = Preprocess(data, threshold_db, window_size)
    /\ last' = [op |-> "preprocess_data", arg |-> window_size, raised |-> NoException,
                ret |-> None]
    /\ UNCHANGED <<csv, threshold_db, stats, measurement_interval, locals, registry_vars, app>>

\* a variant of set_threshold that also flags the samples again
set_threshold_reflagging(new_threshold) ==
    /\ threshold_db' = new_threshold
    /\ data' = IF ~IsNone(data) /\ "is_noise" \in DOMAIN data
               THEN SetKey(data, "is_noise", NoiseFlags(data["dB"], new_threshold))
               ELSE data
    /\ last' = [op |-> "set_threshold", arg |-> new_threshold, raised |-> NoException,
                ret |-> None]
    /\ UNCHANGED <<csv, stats, measurement_interval, locals, registry_vars, app>>

\* analyzer.threshold_db = new_threshold
set_threshold(new_threshold) ==
    /\ threshold_db' = new_threshold
    /\ last' = [op |-> "set_threshold", arg |-> new_threshold, raised |-> NoException,
                ret |-> None]
    /\ UNCHANGED <<csv, data, stats, measurement_interval, locals, registry_vars, app>>

(***************************************************************************)
(* SleepAnalyzer.calculate_statistics                                      *)
(***************************************************************************)
TrueCount(flags, S) == Count({i \in S : flags[i]})

\* lines 139-148: the loop over is_noise, from row i on
RECURSIVE StreakLoop(_, _, _, _)
StreakLoop(flags, i, current_streak, consecutive_noise) ==
    IF i > Len(flags) THEN <<current_streak, consecutive_noise>>
    ELSE IF flags[i]
         THEN StreakLoop(flags, i + 1, current_streak + 1, consecutive_noise)
         ELSE StreakLoop(flags, i + 1, 0,
                         IF current_streak > 0
                         THEN Append(consecutive_noise, current_streak)
                         ELSE consecutive_noise)

\* a variant of ConsecutiveNoise that forgets the streak still open at the end
ConsecutiveNoiseClosedOnly(flags) == StreakLoop(flags, 1, 0, <<>>)[2]

\* lines 139-151: the loop, then the streak still open at the last row
ConsecutiveNoise(flags) ==
    LET r == StreakLoop(flags, 1, 0, <<>>)
    IN  IF r[1] > 0 THEN Append(r[2], r[1]) ELSE r[2]

\* a variant of AvgStreakSeconds without the guard on an empty list
AvgStreakSecondsUnguarded(consecutive_noise, interval) ==
    Rat(SumOver(consecutive_noise, DOMAIN consecutive_noise) * interval,
        Len(consecutive_noise))

\* line 164
AvgStreakSeconds(consecutive_noise, interval) ==
    IF consecutive_noise # <<>>
    THEN Rat(SumOver(consecutive_noise, DOMAIN consecutive_noise) * interval,
             Len(consecutive_noise))
    ELSE Num(0)

\* a variant of MaxStreakSeconds that takes the shortest streak
MaxStreakSecondsShortest(consecutive_noise, interval) ==
    IF consecutive_noise # <<>>
    THEN Num(Min(Range(consecutive_noise)) * interval)
    ELSE Num(0)

\* line 165
MaxStreakSeconds(consecutive_noise, interval) ==
    IF consecutive_noise # <<>>
    THEN Num(Max(Range(consecutive_noise)) * interval)
    ELSE Num(0)

\* (count / total) * 100 on numpy numbers: 0 / 0 is NaN
Pct(count, total) == RMul(Rat(count, total), Num(100))

\* a variant of NoiseRatio: the share of the rows that are not noise
NoiseRatioOfQuiet(noise_records, total_records) ==
    Pct(total_records - noise_records, total_records)

\* line 136
NoiseRatio(noise_records, total_records) == Pct(noise_records, total_records)

\* a variant of DisturbedRows after the comment of line 184 ("Disturbed: > 40 dB")
DisturbedRowsAbove(x) == {i \in DOMAIN x : x[i] > 40}

\* lines 186-189: the rows of x in each band
DeepRows(x) == {i \in DOMAIN x : x[i] < 30}

LightRows(x) == {i \in DOMAIN x : x[i] >= 30 /\ x[i] < 35}

RestlessRows(x) == {i \in DOMAIN x : x[i] >= 35 /\ x[i] < 40}

DisturbedRows(x) == {i \in DOMAIN x : x[i] >= 40}

\* lines 174-175
FirstHourCount(n, interval) ==
    LET first_hour_records == 3600 \div interval
    IN  IF first_hour_records < n THEN first_hour_records ELSE n

\* line 200: the rows whose time_hours lies in [hour, hour + 1)
HourMask(n, interval, hour) ==
    {i \in 1..n : hour * 3600 <= (i - 1) * interval
                  /\ (i - 1) * interval < (hour + 1) * 3600}

\* line 199: int(np.ceil(time_hours[-1])), for n >= 1
HourRange(n, interval) == ((n - 1) * interval + 3599) \div 3600

\* a variant of HourEntry with right-closed bands
HourEntryRightClosed(x, mask, hour) ==
    [hour         |-> hour,
     avg_db       |-> Mean(x, mask),
     deep_sleep_pct |-> Pct(Count({i \in mask : x[i] <= 30}), Count(mask)),
     restless_pct |-> Pct(Count({i \in mask : x[i] > 35 /\ x[i] <= 40}), Count(mask))]

\* lines 203-208
HourEntry(x, mask, hour) ==
    [hour         |-> hour,
     avg_db       |-> Mean(x, mask),
     deep_sleep_pct |-> Pct(Count({i \in mask : x[i] < 30}), Count(mask)),
     restless_pct |-> Pct(Count({i \in mask : x[i] >= 35 /\ x[i] < 40}), Count(mask))]

\* lines 198-208: the loop from `hour` on
RECURSIVE HourLoop(_, _, _, _)
HourLoop(x, interval, hour, hourly_quality) ==
    IF hour >= HourRange(Len(x), interval) THEN hourly_quality
    ELSE LET hour_mask == HourMask(Len(x), interval, hour)
         IN  HourLoop(x, interval, hour + 1,
                      IF Count(hour_mask) > 0
                      THEN Append(hourly_quality, HourEntry(x, hour_mask, hour))
                      ELSE hourly_quality)

HourlyQuality(x, interval) == HourLoop(x, interval, 0, <<>>)

\* the local variables of calculate_statistics
StatLocals(df, interval) ==
    LET x == df["dB"]
        n == Len(x)
    IN  [total_records     |-> n,
         noise_records     |-> TrueCount(df["is_noise"], 1..n),
         consecutive_noise |-> ConsecutiveNoise(df["is_noise"]),
         first_hour_count  |-> FirstHourCount(n, interval),
         first_hour_noise  |-> TrueCount(df["is_noise"], 1..FirstHourCount(n, interval)),
         deep_sleep        |-> Count(DeepRows(x)),
         light_sleep       |-> Count(LightRows(x)),
         restless          |-> Count(RestlessRows(x)),
         disturbed         |-> Count(DisturbedRows(x))]

\* lines 155-166
BaseStats(df, interval, loc) ==
    LET x == df["dB"]
        n == loc.total_records
    IN  [total_samples            |-> n,
         total_duration_minutes   |-> Rat(n * interval, 60),
         noise_sample_count       |-> loc.noise_records,
         noise_ratio_pct          |-> NoiseRatio(loc.noise_records, n),
         mean_db                  |-> Mean(x, 1..n),
         max_db                   |-> IF n = 0 THEN NaN ELSE Num(Max(Range(x))),
         min_db                   |-> IF n = 0 THEN NaN ELSE Num(Min(Range(x))),
         variance_db              |-> Variance(x, 1..n),
         avg_noise_streak_seconds |-> AvgStreakSeconds(loc.consecutive_noise, interval),
         max_noise_streak_seconds |-> MaxStreakSeconds(loc.consecutive_noise, interval)]

\* lines 169-171
RemStats(df, st, loc) ==
    IF "is_rem" \in DOMAIN df
    THEN SetKey(st, "rem_sleep_pct",
                Pct(TrueCount(df["is_rem"], 1..loc.total_records), loc.total_records))
    ELSE st

\* a variant of RatioStats that counts the restless band as disturbed
RatioStatsFrom35(st, loc) ==
    LET s1 == SetKey(st, "first_hour_noise_ratio_pct",
                     Pct(loc.first_hour_noise, loc.first_hour_count))
        s2 == SetKey(s1, "deep_sleep_pct", Pct(loc.deep_sleep, loc.total_records))
        s3 == SetKey(s2, "light_sleep_pct", Pct(loc.light_sleep, loc.total_records))
        s4 == SetKey(s3, "restless_pct", Pct(loc.restless, loc.total_records))
    IN  SetKey(s4, "disturbed_pct", Pct(loc.restless + loc.disturbed, loc.total_records))

\* lines 177 and 191-194
RatioStats(st, loc) ==
    LET s1 == SetKey(st, "first_hour_noise_ratio_pct",
                     Pct(loc.first_hour_noise, loc.first_hour_count))
        s2 == SetKey(s1, "deep_sleep_pct", Pct(loc.deep_sleep, loc.total_records))
        s3 == SetKey(s2, "light_sleep_pct", Pct(loc.light_sleep, loc.total_records))
        s4 == SetKey(s3, "restless_pct", Pct(loc.restless, loc.total_records))
    IN  SetKey(s4, "disturbed_pct", Pct(loc.disturbed, loc.total_records))

\* the record as it stands when line 197 is reached
StatsBeforeHourly(df, interval, loc) ==
    RatioStats(RemStats(df, BaseStats(df, interval, loc), loc), loc)

\* the record calculate_statistics returns for a frame with at least one row
Statistics(df, interval, loc) ==
    SetKey(StatsBeforeHourly(df, interval, loc), "hourly_quality",
           HourlyQuality(df["dB"], interval))

\* line 128: no data, return None; line 133: KeyError unless preprocess_data
\* has added is_noise; line 199: time_hours[-1] raises IndexError on a frame
\* without rows, after self.stats was assigned at line 155.
calculate_statistics ==
    /\ IF IsNone(data)
       THEN /\ UNCHANGED <<stats, locals>>
            /\ last' = [op |-> "calculate_statistics", arg |-> None, raised |-> NoException,
                        ret |-> None]
       ELSE IF "is_noise" \notin DOMAIN data
       THEN /\ UNCHANGED <<stats, locals>>
            /\ last' = [op |-> "calculate_statistics", arg |-> None, raised |-> "KeyError",
                        ret |-> None]
       ELSE /\ locals' = StatLocals(data, measurement_interval)
            /\ IF NRows(data) = 0
               THEN /\ stats' = StatsBeforeHourly(data, measurement_interval, locals')
                    /\ last' = [op |-> "calculate_statistics", arg |-> None,
                                raised |-> "IndexError", ret |-> None]
               ELSE /\ stats' = Statistics(data, measurement_interval, locals')
                    /\ last' = [op |-> "calculate_statistics", arg |-> None,
                                raised |-> NoException, ret |-> stats']
    /\ UNCHANGED <<csv, threshold_db, data, measurement_interval, registry_vars, app>>

\* calculate_statistics as a function of the analyzer it is called on: the
\* stats the analyzer holds afterwards, the exception that escapes and the
\* value returned
Calculate(d, interval, st) ==
    IF IsNone(d)
    THEN [stats |-> st, locals |-> EmptyDict, raised |-> NoException, ret |-> None]
    ELSE IF "is_noise" \notin DOMAIN d
    THEN [stats |-> st, locals |-> EmptyDict, raised |-> "KeyError", ret |-> None]
    ELSE LET loc == StatLocals(d, interval)
         IN  IF NRows(d) = 0
             THEN [stats |-> StatsBeforeHourly(d, interval, loc), locals |-> loc,
                   raised |-> "IndexError", ret |-> None]
             ELSE LET full == Statistics(d, interval, loc)
                  IN  [stats |-> full, locals |-> loc, raised |-> NoException,
                       ret |-> full]

\* lines 215-216 and 408-409: `if not self.stats: self.calculate_statistics()`
CalculateIfEmpty(d, interval, st) ==
    IF st = EmptyDict THEN Calculate(d, interval, st)
    ELSE [stats |-> st, locals |-> EmptyDict, raised |-> NoException, ret |-> st]

\* lines 213-232: the record whose fields are printed
print_statistics ==
    LET run == CalculateIfEmpty(data, measurement_interval, stats)
    IN  /\ stats' = run.stats
        /\ locals' = IF run.locals = EmptyDict THEN locals ELSE run.locals
        /\ last' = [op |-> "print_statistics", arg |-> None, raised |-> run.raised,
                    ret |-> IF run.raised = NoException THEN run.stats ELSE None]
        /\ UNCHANGED <<csv, threshold_db, data, measurement_interval, registry_vars, app>>

\* lines 397-434: the threshold and the record written to the report file
generate_report(condition_name) ==
    LET run == CalculateIfEmpty(data, measurement_interval, stats)
    IN  /\ stats' = run.stats
        /\ locals' = IF run.locals = EmptyDict THEN locals ELSE run.locals
        /\ last' = [op |-> "generate_report", arg |-> condition_name, raised |-> run.raised,
                    ret |-> IF run.raised = NoException
                            THEN [threshold_db |-> threshold_db, stats |-> run.stats]
                            ELSE None]
        /\ UNCHANGED <<csv, threshold_db, data, measurement_interval, registry_vars, app>>

\* another recording is put at the path that load_data reads
replace_csv(file) ==
    /\ csv' = file
    /\ last' = [op |-> "replace_csv", arg |-> file, raised |-> NoException, ret |-> None]
    /\ UNCHANGED <<analyzer_vars, registry_vars, app>>

(***************************************************************************)
(* One analyzer on one file.                                               *)
(***************************************************************************)
NoCall == [op |-> "init", arg |-> None, raised |-> NoException, ret |-> None]

InitAnalyzer ==
    /\ threshold_db \in Thresholds
    /\ data = None
    /\ stats = EmptyDict
    /\ measurement_interval = 1
    /\ locals = EmptyDict

InitRegistry ==
    /\ ht_threshold_db = 40
    /\ condition_stats = EmptyDict
    /\ results = EmptyDict

Init ==
    /\ csv \in CsvFiles
    /\ InitAnalyzer
    /\ InitRegistry
    /\ app = NoApp
    /\ last = NoCall

Next ==
    \/ \E readable \in BOOLEAN : load_data(readable)
    \/ \E window_size \in WindowSizes : preprocess_data(window_size)
    \/ \E new_threshold \in Thresholds : set_threshold(new_threshold)
    \/ calculate_statistics

Spec == Init /\ [][Next]_vars

(***************************************************************************)
(* One analyzer built with the default threshold, SleepAnalyzer().         *)
(***************************************************************************)
DefaultThreshold == 40

InitDefaultThreshold ==
    /\ csv \in CsvFiles
    /\ threshold_db = DefaultThreshold
    /\ data = None
    /\ stats = EmptyDict
    /\ measurement_interval = 1
    /\ locals = EmptyDict
    /\ InitRegistry
    /\ app = NoApp
    /\ last = NoCall

SpecDefaultThreshold == InitDefaultThreshold /\ [][Next]_vars

(***************************************************************************)
(* The run of main(): one analyzer with the default threshold on a long    *)
(* file of quiet and loud samples taken every 5 seconds; load_data,        *)
(* preprocess_data(window_size = 5), calculate_statistics.                 *)
(***************************************************************************)
InitMain ==
    /\ csv \in StreakCsvFiles
    /\ threshold_db = 40
    /\ data = None
    /\ stats = EmptyDict
    /\ measurement_interval = 1
    /\ locals = EmptyDict
    /\ InitRegistry
    /\ app = NoApp
    /\ last = NoCall

NextMain ==
    \/ load_data(TRUE)
    \/ preprocess_data(5)
    \/ calculate_statistics

SpecMain == InitMain /\ [][NextMain]_vars

(***************************************************************************)
(* HypothesisTest: the registry of analyzed conditions.                    *)
(* A dictionary is enumerated in the order of ConditionList; Python         *)
(* enumerates it in insertion order, and the lists built from it hold the  *)
(* same elements in that order.                                            *)
(***************************************************************************)
ConditionList == <<"A", "B", "C">>

Conditions == Range(ConditionList)

\* the keys of dictionary d, as a list
Keys(d) == SelectSeq(ConditionList, LAMBDA c : c \in DOMAIN d)

\* the files a condition can be analyzed from: two samples one second apart,
\* a file with a header and no rows, and a file read_csv cannot read
FileNames == {"quiet.csv", "half.csv", "empty.csv", "unreadable.csv"}

FileFrame(f) ==
    CASE f = "quiet.csv" -> CsvFrame(<<30, 30>>, 1)
      [] f = "half.csv"  -> CsvFrame(<<30, 40>>, 1)
      [] f = "empty.csv" -> CsvFrame(<<>>, 1)
      [] OTHER           -> None

\* experiment_info: None, or a row of the experiment log
ExperimentInfos == {None, [phone_minutes |-> 30], [phone_minutes |-> 120]}

SignificanceThresholds == {5, 50, 100}

DefaultWindow == 5

\* lines 42-45: a fresh analyzer after load_data, preprocess_data() and
\* calculate_statistics(); `raised` is the exception calculate_statistics
\* lets escape and `ret` its result.
RunAnalyzer(thr, f) ==
    LET frame    == FileFrame(f)
        loaded   == ~IsNone(frame)
        interval == IF loaded THEN InferInterval(frame) ELSE 1
        df       == IF loaded THEN Preprocess(frame, thr, DefaultWindow) ELSE None
        loc      == StatLocals(df, interval)
        st       == IF ~loaded THEN EmptyDict
                    ELSE IF NRows(df) = 0 THEN StatsBeforeHourly(df, interval, loc)
                    ELSE Statistics(df, interval, loc)
    IN  [analyzer |-> [threshold_db |-> thr, data |-> df, stats |-> st,
                       measurement_interval |-> interval],
         raised   |-> IF loaded /\ NRows(df) = 0 THEN "IndexError" ELSE NoException,
         ret      |-> IF loaded /\ NRows(df) > 0 THEN st ELSE None]

\* lines 48-50: experiment_info.get(key, 0)
WithExperimentInfo(stats_result, experiment_info) ==
    LET phone == IF "phone_minutes" \in DOMAIN experiment_info
                 THEN experiment_info["phone_minutes"] ELSE 0
        game  == IF "game_minutes" \in DOMAIN experiment_info
                 THEN experiment_info["game_minutes"] ELSE 0
    IN  SetKey(SetKey(stats_result, "phone_usage_minutes", phone),
               "game_minutes", game)

\* `if experiment_info:` is false for None and for an empty dictionary
Truthy(experiment_info) == ~IsNone(experiment_info) /\ DOMAIN experiment_info # {}

\* a variant of Register that keeps the entry a name already has
RegisterIfAbsent(d, name, v) == IF name \in DOMAIN d THEN d ELSE SetKey(d, name, v)

\* lines 52-53: d[name] = v
Register(d, name, v) == SetKey(d, name, v)

\* the runs of the analyzer, tabulated
RunTable == [thr \in Thresholds, f \in FileNames |-> RunAnalyzer(thr, f)]

analyze_condition(csv_file, condition_name, experiment_info) ==
    LET run  == RunTable[ht_threshold_db, csv_file]
        call == [op |-> "analyze_condition", arg |-> condition_name]
    IN  /\ IF run.raised # NoException
           THEN \* calculate_statistics raised: nothing is stored
                /\ UNCHANGED <<condition_stats, results>>
                /\ last' = call @@ [raised |-> run.raised, ret |-> None]
           ELSE IF Truthy(experiment_info) /\ IsNone(run.ret)
           THEN \* line 49: item assignment on None
                /\ UNCHANGED <<condition_stats, results>>
                /\ last' = call @@ [raised |-> "TypeError", ret |-> None]
           ELSE LET stats_result ==
                        IF Truthy(experiment_info)
                        THEN WithExperimentInfo(run.ret, experiment_info)
                        ELSE run.ret
                    \* stats_result is the analyzer's own stats dictionary
                    analyzer ==
                        IF IsNone(stats_result) THEN run.analyzer
                        ELSE [run.analyzer EXCEPT !.stats = stats_result]
                    \* the call replaces a different record held under the name
                    replaced ==
                        /\ condition_name \in DOMAIN condition_stats
                        /\ condition_stats[condition_name] # stats_result
                IN  /\ condition_stats' = Register(condition_stats, condition_name, stats_result)
                    /\ results' = Register(results, condition_name, analyzer)
                    /\ last' = call @@ [raised |-> NoException, ret |-> stats_result,
                                        replaced |-> replaced]
        /\ UNCHANGED <<app, csv, analyzer_vars, ht_threshold_db>>

\* lines 73-80
KeyMetrics ==
    <<"noise_ratio_pct", "mean_db", "max_db", "avg_noise_streak_seconds",
      "first_hour_noise_ratio_pct", "phone_usage_minutes">>

\* the columns of pd.DataFrame(condition_stats).T: the keys of the records
TableColumns(cs) ==
    UNION {DOMAIN cs[c] : c \in {d \in DOMAIN cs : ~IsNone(cs[d])}}

\* lines 70-83: one row per condition, one column per available key metric;
\* a cell the condition has no value for is NaN, and the row of a condition
\* whose record is None holds None in every cell
ComparisonTable(cs) ==
    LET available_metrics == SelectSeq(KeyMetrics, LAMBDA m : m \in TableColumns(cs))
    IN  [rows    |-> Keys(cs),
         columns |-> available_metrics,
         cell    |-> [c \in DOMAIN cs |->
                        [m \in Range(available_metrics) |->
                            IF IsNone(cs[c]) THEN None
                            ELSE IF m \in DOMAIN cs[c] THEN cs[c][m] ELSE NaN]]]

\* a variant of TooFewConditions that only refuses an empty registry
NoConditions(cs) == Cardinality(DOMAIN cs) < 1

\* line 65
TooFewConditions(cs) == Cardinality(DOMAIN cs) < 2

\* line 65: fewer than 2 conditions, return None.  pd.DataFrame raises
\* ValueError on a dictionary whose values are all None.
compare_conditions ==
    /\ IF TooFewConditions(condition_stats)
       THEN last' = [op |-> "compare_conditions", arg |-> None,
                     raised |-> NoException, ret |-> None]
       ELSE IF \A c \in DOMAIN condition_stats : IsNone(condition_stats[c])
       THEN last' = [op |-> "compare_conditions", arg |-> None,
                     raised |-> "ValueError", ret |-> None]
       ELSE last' = [op |-> "compare_conditions", arg |-> None,
                     raised |-> NoException,
                     ret |-> ComparisonTable(condition_stats)]
    /\ UNCHANGED <<app, csv, analyzer_vars, registry_vars>>

Column(cs, names, key) == [k \in 1..Len(names) |-> cs[names[k]][key]]

\* lines 111-118
test_hypothesis1 ==
    /\ IF \E c \in DOMAIN condition_stats : IsNone(condition_stats[c])
       THEN \* line 112: subscript of None
            last' = [op |-> "test_hypothesis1", arg |-> None,
                     raised |-> "TypeError", ret |-> None]
       ELSE LET ratios == Column(condition_stats, Keys(condition_stats), "noise_ratio_pct")
            IN  last' = [op |-> "test_hypothesis1", arg |-> None,
                         raised |-> NoException,
                         ret |-> [conditions          |-> Keys(condition_stats),
                                  noise_ratios        |-> ratios,
                                  avg_noise_ratio_pct |-> RMean(ratios)]]
    /\ UNCHANGED <<app, csv, analyzer_vars, registry_vars>>

\* scipy.stats.pearsonr(x, y): the sign of r and its square; NaN when an
\* input is constant
PearsonR(xs, ys) ==
    LET n   == Num(Len(xs))
        prod(a, b) == [k \in 1..Len(a) |-> RMul(a[k], b[k])]
        sx  == RSum(xs)
        sy  == RSum(ys)
        cov == RSub(RMul(n, RSum(prod(xs, ys))), RMul(sx, sy))
        vx  == RSub(RMul(n, RSum(prod(xs, xs))), RMul(sx, sx))
        vy  == RSub(RMul(n, RSum(prod(ys, ys))), RMul(sy, sy))
    IN  [sign    |-> IF RLt(cov, Num(0)) THEN -1 ELSE IF RLt(Num(0), cov) THEN 1 ELSE 0,
         squared |-> RDiv(RMul(cov, cov), RMul(vx, vy))]

\* the p-value is a function of r and the number of pairs
PValue(r, n) == [of_r |-> r, pairs |-> n]

\* lines 166-170
WithCorrelation(res, phone_times, noise_ratios) ==
    IF Len(phone_times) >= 2
    THEN LET correlation == PearsonR(phone_times, noise_ratios)
         IN  SetKey(SetKey(res, "pearson_r", correlation),
                    "p_value", PValue(correlation, Len(phone_times)))
    ELSE res

\* lines 196-201
Decision(difference, significance_threshold) ==
    IF RGe(RAbs(difference), significance_threshold) THEN "supported" ELSE "rejected"

\* lines 182-201
WithDecision(res, cs, significance_threshold) ==
    IF "A" \in DOMAIN cs /\ "B" \in DOMAIN cs
    THEN LET noise_A    == cs["A"]["noise_ratio_pct"]
             noise_B    == cs["B"]["noise_ratio_pct"]
             difference == RSub(noise_B, noise_A)
             r1 == SetKey(res, "noise_ratio_A", noise_A)
             r2 == SetKey(r1, "noise_ratio_B", noise_B)
             r3 == SetKey(r2, "difference_pct_points", difference)
         IN  SetKey(r3, "decision", Decision(difference, significance_threshold))
    ELSE res

\* lines 149-152: the conditions that carry phone-usage minutes
UsageConditions(cs) ==
    SelectSeq(Keys(cs), LAMBDA c : "phone_usage_minutes" \in DOMAIN cs[c])

test_hypothesis2(significance_threshold) ==
    /\ IF \E c \in DOMAIN condition_stats : IsNone(condition_stats[c])
       THEN \* line 150: `in` on None
            last' = [op |-> "test_hypothesis2", arg |-> significance_threshold,
                     raised |-> "TypeError", ret |-> None]
       ELSE LET used         == UsageConditions(condition_stats)
                minutes      == Column(condition_stats, used, "phone_usage_minutes")
                phone_times  == [k \in 1..Len(used) |-> Num(minutes[k])]
                noise_ratios == Column(condition_stats, used, "noise_ratio_pct")
                res == [criterion |-> significance_threshold,
                        data |-> [phone_usage_minutes |-> phone_times,
                                  noise_ratio_pct |-> noise_ratios]]
            IN  last' = [op |-> "test_hypothesis2", arg |-> significance_threshold,
                         raised |-> NoException,
                         ret |-> WithDecision(
                                     WithCorrelation(res, phone_times, noise_ratios),
                                     condition_stats, Num(significance_threshold))]
    /\ UNCHANGED <<app, csv, analyzer_vars, registry_vars>>

(***************************************************************************)
(* The registry on its own.                                                *)
(***************************************************************************)
InitHypothesisTest ==
    /\ csv = CsvFrame(<<>>, 0)
    /\ threshold_db = 40
    /\ data = None
    /\ stats = EmptyDict
    /\ measurement_interval = 1
    /\ locals = EmptyDict
    /\ InitRegistry
    /\ app = NoApp
    /\ last = NoCall

NextHypothesisTest ==
    \/ \E f \in FileNames, c \in Conditions, info \in ExperimentInfos :
           analyze_condition(f, c, info)
    \/ compare_conditions
    \/ test_hypothesis1
    \/ \E significance_threshold \in SignificanceThresholds :
           test_hypothesis2(significance_threshold)

SpecHypothesisTest == InitHypothesisTest /\ [][NextHypothesisTest]_vars

(***************************************************************************)
(* One analyzer with the default window on short recordings whose levels   *)
(* lie a few dB apart: the is_rem flags.                                   *)
(***************************************************************************)
MaxRemLen == 4

RemLevels == {30, 33, 34, 38}

RemCsvFiles == {CsvFrame(x, 0) : x \in SeqsUpTo(RemLevels, MaxRemLen)}

InitRem ==
    /\ csv \in RemCsvFiles
    /\ threshold_db = DefaultThreshold
    /\ data = None
    /\ stats = EmptyDict
    /\ measurement_interval = 1
    /\ locals = EmptyDict
    /\ InitRegistry
    /\ app = NoApp
    /\ last = NoCall

NextRem ==
    \/ load_data(TRUE)
    \/ preprocess_data(DefaultWindow)
    \/ calculate_statistics

SpecRem == InitRem /\ [][NextRem]_vars

(***************************************************************************)
(* One analyzer whose threshold moves below, to and above 40 dB, the lower *)
(* bound of the disturbed band.                                            *)
(***************************************************************************)
BandLevels == {30, 37, 40, 50}

BandThresholds == {35, 40, 45}

InitThresholds ==
    /\ csv \in {CsvFrame(x, 0) : x \in SeqsUpTo(BandLevels, MaxLen)}
    /\ threshold_db \in BandThresholds
    /\ data = None
    /\ stats = EmptyDict
    /\ measurement_interval = 1
    /\ locals = EmptyDict
    /\ InitRegistry
    /\ app = NoApp
    /\ last = NoCall

NextThresholds ==
    \/ load_data(TRUE)
    \/ preprocess_data(DefaultWindow)
    \/ \E new_threshold \in BandThresholds : set_threshold(new_threshold)
    \/ calculate_statistics

SpecThresholds == InitThresholds /\ [][NextThresholds]_vars

(***************************************************************************)
(* One analyzer that loads one recording after another, and prints and     *)
(* reports its statistics.                                                 *)
(***************************************************************************)
ReloadFiles == {CsvFrame(x, 0) : x \in SeqsUpTo(StreakLevels, MaxLen)}

InitReload ==
    /\ csv \in ReloadFiles
    /\ threshold_db = DefaultThreshold
    /\ data = None
    /\ stats = EmptyDict
    /\ measurement_interval = 1
    /\ locals = EmptyDict
    /\ InitRegistry
    /\ app = NoApp
    /\ last = NoCall

NextReload ==
    \/ \E file \in ReloadFiles : replace_csv(file)
    \/ \E readable \in BOOLEAN : load_data(readable)
    \/ preprocess_data(DefaultWindow)
    \/ calculate_statistics
    \/ print_statistics
    \/ generate_report("A")

SpecReload == InitReload /\ [][NextReload]_vars

(***************************************************************************)
(* SleepAnalysisApp, the interactive menu (src/sleep_analysis/menu_app.py).*)
(* The application holds at most one analyzer, whose fields are the        *)
(* analyzer variables above; app.analyzer tells whether self.analyzer is   *)
(* set.  Menus 4 and 5 draw from the analyzer or work on a tester of their *)
(* own and assign nothing of the application.  An exception that escapes a *)
(* menu ends run(): app.running becomes false.                             *)
(***************************************************************************)
AppFileNames == {"night.csv", "calm.csv", "bare.csv", "empty.csv", "unreadable.csv"}

\* three samples 5 seconds apart, two samples 1 second apart, a file without
\* a time column, a file with a header and no rows, a file that cannot be read
AppFileFrame(f) ==
    CASE f = "night.csv" -> CsvFrame(<<30, 37, 40>>, 5)
      [] f = "calm.csv"  -> CsvFrame(<<30, 30>>, 1)
      [] f = "bare.csv"  -> CsvFrame(<<37>>, 0)
      [] f = "empty.csv" -> CsvFrame(<<>>, 1)
      [] OTHER           -> None

Call(op, arg, raised, ret) == [op |-> op, arg |-> arg, raised |-> raised, ret |-> ret]

\* an exception that escapes the menu ends the loop of run()
AfterMenu(a, raised) == [a EXCEPT !.running = (raised = NoException)]

\* lines 93-106: a new analyzer replaces the old one before the file is read
menu_load_data(file_path, threshold) ==
    LET frame == AppFileFrame(file_path)
    IN  /\ app.running
        /\ threshold_db' = threshold
        /\ stats' = EmptyDict
        /\ locals' = EmptyDict
        /\ IF ~IsNone(frame)
           THEN /\ measurement_interval' = InferInterval(frame)
                /\ data' = Preprocess(frame, threshold, DefaultWindow)
                /\ app' = [app EXCEPT !.analyzer = TRUE, !.current_data = data',
                                      !.current_file = file_path]
           ELSE /\ measurement_interval' = 1
                /\ data' = None
                /\ app' = [app EXCEPT !.analyzer = TRUE]
        /\ last' = Call("menu_load_data", file_path, NoException, None)
        /\ UNCHANGED <<csv, registry_vars>>

\* lines 116-142: the converted file carries full dates in its time column,
\* which the format %H:%M:%S of load_data does not parse
ConvertedFrame(file_path) ==
    LET frame == AppFileFrame(file_path)
    IN  IF IsNone(frame) THEN None
        ELSE [dB |-> frame["dB"], time |-> [i \in DOMAIN frame["dB"] |-> NaT]]

menu_convert_and_load(file_path, threshold) ==
    LET frame == ConvertedFrame(file_path)
    IN  /\ app.running
        /\ IF IsNone(frame)
           THEN UNCHANGED <<analyzer_vars, app>>
           ELSE /\ threshold_db' = threshold
                /\ stats' = EmptyDict
                /\ locals' = EmptyDict
                /\ measurement_interval' = InferInterval(frame)
                /\ data' = Preprocess(frame, threshold, DefaultWindow)
                /\ app' = [app EXCEPT !.analyzer = TRUE, !.current_data = data',
                                      !.current_file = file_path]
        /\ last' = Call("menu_convert_and_load", file_path, NoException, None)
        /\ UNCHANGED <<csv, registry_vars>>

\* lines 146-160: calculate_statistics, then print_statistics
menu_analyze_data ==
    /\ app.running
    /\ IF ~app.analyzer
       THEN /\ UNCHANGED <<stats, locals, app>>
            /\ last' = Call("menu_analyze_data", None, NoException, None)
       ELSE LET run == Calculate(data, measurement_interval, stats)
            IN  /\ stats' = run.stats
                /\ locals' = run.locals
                /\ app' = AfterMenu(app, run.raised)
                /\ last' = Call("menu_analyze_data", None, run.raised,
                                IF run.raised = NoException THEN run.stats ELSE None)
    /\ UNCHANGED <<csv, threshold_db, data, measurement_interval, registry_vars>>

\* lines 231-255: calculate_statistics, then three fields of analyzer.stats
menu_test_hypothesis ==
    /\ app.running
    /\ IF ~app.analyzer
       THEN /\ UNCHANGED <<stats, locals, app>>
            /\ last' = Call("menu_test_hypothesis", None, NoException, None)
       ELSE LET run    == Calculate(data, measurement_interval, stats)
                raised == IF run.raised # NoException THEN run.raised
                          ELSE IF "noise_ratio_pct" \notin DOMAIN run.stats THEN "KeyError"
                          ELSE NoException
            IN  /\ stats' = run.stats
                /\ locals' = run.locals
                /\ app' = AfterMenu(app, raised)
                /\ last' = Call("menu_test_hypothesis", None, raised,
                                IF raised = NoException
                                THEN [noise_ratio_pct |-> run.stats["noise_ratio_pct"],
                                      mean_db |-> run.stats["mean_db"],
                                      max_db  |-> run.stats["max_db"]]
                                ELSE None)
    /\ UNCHANGED <<csv, threshold_db, data, measurement_interval, registry_vars>>

\* lines 257-275
menu_generate_report(condition) ==
    /\ app.running
    /\ IF ~app.analyzer
       THEN /\ UNCHANGED <<stats, locals, app>>
            /\ last' = Call("menu_generate_report", condition, NoException, None)
       ELSE LET run == CalculateIfEmpty(data, measurement_interval, stats)
            IN  /\ stats' = run.stats
                /\ locals' = IF run.locals = EmptyDict THEN locals ELSE run.locals
                /\ app' = AfterMenu(app, run.raised)
                /\ last' = Call("menu_generate_report", condition, run.raised,
                                IF run.raised = NoException
                                THEN [threshold_db |-> threshold_db, stats |-> run.stats]
                                ELSE None)
    /\ UNCHANGED <<csv, threshold_db, data, measurement_interval, registry_vars>>

\* lines 277-301: what is displayed; the threshold and the noise ratio are
\* displayed when the analyzer holds a non-empty stats record
menu_show_data_info ==
    /\ app.running
    /\ last' = Call("menu_show_data_info", None, NoException,
                    IF IsNone(app.current_data) THEN None
                    ELSE IF app.analyzer /\ stats # EmptyDict
                    THEN [file |-> app.current_file,
                          threshold_db |-> threshold_db,
                          noise_ratio_pct |-> stats["noise_ratio_pct"]]
                    ELSE [file |-> app.current_file])
    /\ UNCHANGED <<csv, analyzer_vars, registry_vars, app>>

\* lines 303-327: the new threshold, then preprocess_data(); current_data is
\* the frame the analyzer holds, so it receives the new columns
menu_change_settings(new_threshold) ==
    /\ app.running
    /\ IF ~app.analyzer
       THEN UNCHANGED <<threshold_db, data, app>>
       ELSE /\ threshold_db' = new_threshold
            /\ data' = IF IsNone(data) THEN data
                       ELSE Preprocess(data, new_threshold, DefaultWindow)
            /\ app' = IF IsNone(data) THEN app ELSE [app EXCEPT !.current_data = data']
    /\ last' = Call("menu_change_settings", new_threshold, NoException, None)
    /\ UNCHANGED <<csv, stats, measurement_interval, locals, registry_vars>>

\* lines 17-20
InitMenuApp ==
    /\ csv = CsvFrame(<<>>, 0)
    /\ threshold_db = DefaultThreshold
    /\ data = None
    /\ stats = EmptyDict
    /\ measurement_interval = 1
    /\ locals = EmptyDict
    /\ InitRegistry
    /\ app = [NoApp EXCEPT !.running = TRUE]
    /\ last = NoCall

\* lines 338-355
NextMenuApp ==
    \/ \E f \in AppFileNames, t \in Thresholds : menu_load_data(f, t)
    \/ \E f \in AppFileNames \ {"empty.csv"}, t \in Thresholds : menu_convert_and_load(f, t)
    \/ menu_analyze_data
    \/ menu_test_hypothesis
    \/ menu_generate_report("A")
    \/ menu_show_data_info
    \/ \E t \in Thresholds : menu_change_settings(t)

SpecMenuApp == InitMenuApp /\ [][NextMenuApp]_vars

(***************************************************************************)
(* The web application (src/sleep_analysis/app.py).  The session holds the *)
(* uploaded frame (app.current_data), the threshold of the settings page   *)
(* (app.threshold) and at most one analyzer (app.analyzer).                *)
(***************************************************************************)
\* lines 192-198: read_csv, then the frame is kept when it has a time and a
\* dB column
Uploaded(file) ==
    LET df == AppFileFrame(file)
    IN  IF ~IsNone(df) /\ "time" \in DOMAIN df THEN df ELSE None

\* lines 192-212: a file is chosen in the uploader
web_upload(file) ==
    /\ app' = IF IsNone(Uploaded(file)) THEN app
              ELSE [app EXCEPT !.current_data = Uploaded(file)]
    /\ last' = Call("web_upload", file, NoException, None)
    /\ UNCHANGED <<csv, analyzer_vars, registry_vars>>

\* lines 192-220: the button is pressed with a file in the uploader; the
\* analyzer is built with the threshold of the session and is given the
\* frame directly, so its measurement_interval is the 1 of __init__
web_start_analysis(file) ==
    /\ IF IsNone(Uploaded(file))
       THEN UNCHANGED <<analyzer_vars, app>>
       ELSE /\ threshold_db' = app.threshold
            /\ stats' = EmptyDict
            /\ locals' = EmptyDict
            /\ measurement_interval' = 1
            /\ data' = Preprocess(Uploaded(file), app.threshold, DefaultWindow)
            /\ app' = [app EXCEPT !.analyzer = TRUE, !.current_data = data']
    /\ last' = Call("web_start_analysis", file, NoException, None)
    /\ UNCHANGED <<csv, registry_vars>>

\* lines 284-297: the statistics the page shows
show_analysis ==
    /\ IF ~app.analyzer
       THEN /\ UNCHANGED <<stats, locals>>
            /\ last' = Call("show_analysis", None, NoException, None)
       ELSE LET run == Calculate(data, measurement_interval, stats)
            IN  /\ stats' = run.stats
                /\ locals' = run.locals
                /\ last' = Call("show_analysis", None, run.raised,
                                IF run.raised = NoException THEN run.stats ELSE None)
    /\ UNCHANGED <<csv, threshold_db, data, measurement_interval, registry_vars, app>>

\* lines 804-819: the slider; the result tells whether the threshold of the
\* session changed
show_settings(new_threshold) ==
    /\ app' = [app EXCEPT !.threshold = new_threshold]
    /\ last' = Call("show_settings", new_threshold, NoException,
                    [changed |-> new_threshold # app.threshold])
    /\ UNCHANGED <<csv, analyzer_vars, registry_vars>>

\* lines 86-91
InitWebApp ==
    /\ csv = CsvFrame(<<>>, 0)
    /\ threshold_db = DefaultThreshold
    /\ data = None
    /\ stats = EmptyDict
    /\ measurement_interval = 1
    /\ locals = EmptyDict
    /\ InitRegistry
    /\ app = [NoApp EXCEPT !.running = TRUE]
    /\ last = NoCall

NextWebApp ==
    \/ \E file \in AppFileNames : web_upload(file)
    \/ \E file \in AppFileNames : web_start_analysis(file)
    \/ show_analysis
    \/ \E new_threshold \in Thresholds : show_settings(new_threshold)

SpecWebApp == InitWebApp /\ [][NextWebApp]_vars

(***************************************************************************)
(* Properties of the analyzer.                                             *)
(***************************************************************************)
\* calculate_statistics has just returned a record for the current data
AfterStatistics ==
    /\ last.op = "calculate_statistics"
    /\ last.raised = NoException
    /\ ~IsNone(last.ret)

\* preprocess_data has just annotated the current data
AfterPreprocess == last.op = "preprocess_data" /\ ~IsNone(data)

C2_NoiseRatio ==
    AfterStatistics =>
        /\ last.ret.total_samples = Len(data["dB"])
        /\ last.ret.noise_sample_count =
               Cardinality({i \in DOMAIN data["is_noise"] : data["is_noise"][i]})
        /\ last.ret.noise_ratio_pct =
               Rat(100 * last.ret.noise_sample_count, last.ret.total_samples)

\* statistics of a series with noise and quiet samples
C2_Witness ==
    /\ AfterStatistics
    /\ last.ret.noise_sample_count > 0
    /\ last.ret.noise_sample_count < last.ret.total_samples

\* C3: after preprocess_data, is_noise[i] holds exactly when the raw
\* level_db[i] is at or above the threshold of the analyzer at the call,
\* whatever the neighbouring samples and the smoothed values are.
C3_NoiseFlag ==
    AfterPreprocess =>
        /\ DOMAIN data["is_noise"] = DOMAIN data["dB"]
        /\ \A i \in DOMAIN data["dB"] :
               data["is_noise"][i] <=> (data["dB"][i] >= threshold_db)

\* a sample equal to the threshold next to a sample below it, smoothed above
\* or below the threshold
C3_Witness ==
    /\ AfterPreprocess
    /\ \E i, j \in DOMAIN data["dB"] :
           /\ data["dB"][i] = threshold_db
           /\ data["dB"][j] < threshold_db
           /\ RLt(data["dB_smoothed"][i], Num(threshold_db))

\* the rows that HourlyQuality puts in the bucket of `hour`
RowsOfHour(hour) ==
    {i \in DOMAIN data["dB"] : ((i - 1) * measurement_interval) \div 3600 = hour}

AllAt(S, v) == S # {} /\ \A i \in S : data["dB"][i] = v

RunStarts(flags) ==
    {i \in DOMAIN flags : flags[i] /\ (i = 1 \/ ~flags[i - 1])}

\* the last row of the maximal run that starts at row i
RunEnd(flags, i) ==
    Min({j \in i..Len(flags) : flags[j] /\ (j = Len(flags) \/ ~flags[j + 1])})

\* the lengths of the maximal runs of true flags, in order of occurrence
MaximalRuns(flags) ==
    LET starts == RunStarts(flags)
        nth(k) == CHOOSE i \in starts : Count({j \in starts : j < i}) = k - 1
    IN  [k \in 1..Count(starts) |-> RunEnd(flags, nth(k)) - nth(k) + 1]

ExampleFlags == <<FALSE, TRUE, TRUE, FALSE, TRUE, FALSE, FALSE, TRUE, TRUE, TRUE>>

\* C5: the streak list of calculate_statistics is the list of the lengths of
\* the maximal runs of true is_noise flags in order, a run reaching the last
\* sample included; the maximum streak is the longest run times the interval
\* and the average streak the mean run length times the interval; the flags
\* F,T,T,F,T,F,F,T,T,T at 5 s give the runs 2,1,3, maximum 15 and average 10.
C5_Streaks ==
    AfterStatistics =>
        LET runs == MaximalRuns(data["is_noise"])
        IN  /\ locals.consecutive_noise = runs
            /\ runs # <<>> =>
                   /\ stats.max_noise_streak_seconds =
                          Num(Max(Range(runs)) * measurement_interval)
                   /\ stats.avg_noise_streak_seconds =
                          Rat(SumOver(runs, DOMAIN runs) * measurement_interval, Len(runs))
            /\ (data["is_noise"] = ExampleFlags /\ measurement_interval = 5) =>
                   /\ locals.consecutive_noise = <<2, 1, 3>>
                   /\ stats.max_noise_streak_seconds = Num(15)
                   /\ stats.avg_noise_streak_seconds = Num(10)

\* statistics of the example series
C5_Witness ==
    /\ AfterStatistics
    /\ data["is_noise"] = ExampleFlags
    /\ measurement_interval = 5

\* calculate_statistics was just called on a non-empty preprocessed series
\* without any noise sample
QuietSeriesCalculated ==
    /\ last.op = "calculate_statistics"
    /\ ~IsNone(data)
    /\ "is_noise" \in DOMAIN data
    /\ NRows(data) >= 1
    /\ \A i \in DOMAIN data["is_noise"] : ~data["is_noise"][i]

\* C6: on a non-empty series without any noise sample calculate_statistics
\* returns a record, raising nothing, with avg_noise_streak_seconds = 0 and
\* max_noise_streak_seconds = 0.
C6_NoNoiseStreaks ==
    QuietSeriesCalculated =>
        /\ last.raised = NoException
        /\ ~IsNone(last.ret)
        /\ last.ret.avg_noise_streak_seconds = Num(0)
        /\ last.ret.max_noise_streak_seconds = Num(0)
        /\ stats = last.ret

\* statistics of a quiet series of two samples
C6_Witness == QuietSeriesCalculated /\ NRows(data) >= 2

\* C7: preprocess_data with window_size = 1 leaves every sample as it is,
\* and with every window size the smoothed series has the length of the
\* input and a value (no NaN) at every index, the two edges included.
C7_Smoothing ==
    AfterPreprocess =>
        /\ DOMAIN data["dB_smoothed"] = DOMAIN data["dB"]
        /\ \A i \in DOMAIN data["dB"] : ~IsNaN(data["dB_smoothed"][i])
        /\ last.arg = 1 =>
               \A i \in DOMAIN data["dB"] : data["dB_smoothed"][i] = Num(data["dB"][i])

\* a series of two different samples smoothed with window 1
C7_Witness ==
    /\ AfterPreprocess
    /\ last.arg = 1
    /\ NRows(data) >= 2
    /\ data["dB"][1] # data["dB"][2]

(***************************************************************************)
(* Properties of the registry.                                             *)
(***************************************************************************)
\* C8: compare_conditions on a registry of fewer than 2 conditions returns
\* None (no table), raises nothing and leaves condition_stats and results
\* as they were.
C8_CompareNeedsTwo ==
    [][(last'.op = "compare_conditions" /\ Cardinality(DOMAIN condition_stats) < 2)
          => /\ last'.raised = NoException
             /\ IsNone(last'.ret)
             /\ UNCHANGED registry_vars]_vars

\* compare_conditions was called on a registry of exactly one condition
C8_Witness ==
    /\ last.op = "compare_conditions"
    /\ Cardinality(DOMAIN condition_stats) = 1

\* the registered conditions that hold a record with phone-usage minutes
WithUsage ==
    {c \in DOMAIN condition_stats :
        /\ ~IsNone(condition_stats[c])
        /\ "phone_usage_minutes" \in DOMAIN condition_stats[c]}

\* C9: with conditions "A" and "B" both registered, test_hypothesis2 returns
\* the difference noise_ratio_pct[B] - noise_ratio_pct[A] and the decision
\* supported when the absolute difference is at least the significance
\* threshold, rejected otherwise; with "A" or "B" missing the result has
\* neither a decision nor a difference.
C9_TwoGroupDecision ==
    last.op = "test_hypothesis2" =>
        IF "A" \in DOMAIN condition_stats /\ "B" \in DOMAIN condition_stats
        THEN /\ last.raised = NoException
             /\ ~IsNone(last.ret)
             /\ "difference_pct_points" \in DOMAIN last.ret
             /\ "decision" \in DOMAIN last.ret
             /\ ~IsNone(condition_stats["A"])
             /\ ~IsNone(condition_stats["B"])
             /\ last.ret["difference_pct_points"] =
                    RSub(condition_stats["B"]["noise_ratio_pct"],
                         condition_stats["A"]["noise_ratio_pct"])
             /\ last.ret["decision"] =
                    IF RGe(RAbs(last.ret["difference_pct_points"]), Num(last.arg))
                    THEN "supported" ELSE "rejected"
        ELSE \/ IsNone(last.ret)
             \/ /\ "difference_pct_points" \notin DOMAIN last.ret
                /\ "decision" \notin DOMAIN last.ret

\* C10: test_hypothesis2 returns a result, raising nothing; the result has
\* the correlation fields exactly when at least 2 registered conditions
\* carry phone-usage minutes, and its two lists have the same length, one
\* (phone_usage_minutes, noise_ratio_pct) pair per such condition.
C10_Correlation ==
    last.op = "test_hypothesis2" =>
        /\ last.raised = NoException
        /\ ~IsNone(last.ret)
        /\ ("pearson_r" \in DOMAIN last.ret) <=> (Cardinality(WithUsage) >= 2)
        /\ ("p_value" \in DOMAIN last.ret) <=> (Cardinality(WithUsage) >= 2)
        /\ LET xs == last.ret["data"]["phone_usage_minutes"]
               ys == last.ret["data"]["noise_ratio_pct"]
               cs == SelectSeq(ConditionList, LAMBDA c : c \in WithUsage)
           IN  /\ Len(xs) = Len(ys)
               /\ Len(xs) = Cardinality(WithUsage)
               /\ \A k \in 1..Len(cs) :
                      /\ xs[k] = Num(condition_stats[cs[k]]["phone_usage_minutes"])
                      /\ ys[k] = condition_stats[cs[k]]["noise_ratio_pct"]

\* C11: test_hypothesis1 on a registry of at least one condition raises
\* nothing and returns one noise ratio per registered condition name, the
\* noise_ratio_pct of that condition's record, together with the arithmetic
\* mean of these ratios as the average noise ratio.
C11_Hypothesis1Mean ==
    (last.op = "test_hypothesis1" /\ DOMAIN condition_stats # {}) =>
        /\ last.raised = NoException
        /\ ~IsNone(last.ret)
        /\ Range(last.ret.conditions) = DOMAIN condition_stats
        /\ Len(last.ret.conditions) = Cardinality(DOMAIN condition_stats)
        /\ Len(last.ret.noise_ratios) = Len(last.ret.conditions)
        /\ \A k \in DOMAIN last.ret.conditions :
               /\ ~IsNone(condition_stats[last.ret.conditions[k]])
               /\ last.ret.noise_ratios[k] =
                      condition_stats[last.ret.conditions[k]]["noise_ratio_pct"]
        /\ last.ret.avg_noise_ratio_pct =
               RDiv(RSum(last.ret.noise_ratios), Num(Len(last.ret.noise_ratios)))

C14_CompleteRecords ==
    \A c \in DOMAIN condition_stats :
        /\ ~IsNone(condition_stats[c])
        /\ "noise_ratio_pct" \in DOMAIN condition_stats[c]

(***************************************************************************)
(* Properties of the analyzer, continued.                                  *)
(***************************************************************************)
\* C13: calculate_statistics on a preprocessed series of zero samples
\* reports a failure and leaves stats as it was before the call.
C13_EmptyRejected ==
    [][(/\ last'.op = "calculate_statistics"
        /\ ~IsNone(data)
        /\ "is_noise" \in DOMAIN data
        /\ NRows(data) = 0)
          => /\ (last'.raised # NoException \/ IsNone(last'.ret))
             /\ stats' = stats]_vars

\* the noise fields of record st are those of the flags, whatever threshold
\* the analyzer holds
NoiseFieldsFollow(st, flags, interval) ==
    LET n     == Len(flags)
        noisy == Count({i \in 1..n : flags[i]})
        runs  == MaximalRuns(flags)
        first == IF 3600 \div interval < n THEN 3600 \div interval ELSE n
    IN  /\ st.noise_sample_count = noisy
        /\ st.noise_ratio_pct = Rat(100 * noisy, n)
        /\ st.avg_noise_streak_seconds =
               IF runs = <<>> THEN Num(0)
               ELSE Rat(SumOver(runs, DOMAIN runs) * interval, Len(runs))
        /\ st.max_noise_streak_seconds =
               IF runs = <<>> THEN Num(0) ELSE Num(Max(Range(runs)) * interval)
        /\ st.first_hour_noise_ratio_pct =
               Rat(100 * Count({i \in 1..first : flags[i]}), first)

\* the level fields of record st are functions of the levels alone
LevelFieldsFollow(st, x) ==
    LET n == Len(x)
        share(S) == Rat(100 * Count(S), n)
    IN  /\ st.mean_db = Rat(SumOver(x, 1..n), n)
        /\ st.max_db = Num(Max(Range(x)))
        /\ st.min_db = Num(Min(Range(x)))
        /\ st.deep_sleep_pct = share({i \in 1..n : x[i] < 30})
        /\ st.light_sleep_pct = share({i \in 1..n : x[i] >= 30 /\ x[i] < 35})
        /\ st.restless_pct = share({i \in 1..n : x[i] >= 35 /\ x[i] < 40})
        /\ st.disturbed_pct = share({i \in 1..n : x[i] >= 40})

\* C15: assigning threshold_db changes neither the data (the is_noise flags
\* included) nor stats.  A calculate_statistics that returns a record leaves
\* the flags as they are, flags that some threshold produced and not
\* necessarily the one now held, and computes noise_sample_count,
\* noise_ratio_pct, the streak fields and the first-hour ratio from these
\* flags; mean_db, max_db, min_db and the four band percentages are
\* functions of the levels alone.
C15_ThresholdAlone ==
    [][/\ last'.op = "set_threshold" => (data' = data /\ stats' = stats)
       /\ (/\ last'.op = "calculate_statistics"
           /\ last'.raised = NoException
           /\ ~IsNone(last'.ret)) =>
              /\ data' = data
              /\ \E t \in Thresholds :
                     \A i \in DOMAIN data["dB"] :
                         data["is_noise"][i] <=> (data["dB"][i] >= t)
              /\ NoiseFieldsFollow(stats', data["is_noise"], measurement_interval)
              /\ LevelFieldsFollow(stats', data["dB"])]_vars

\* statistics computed after the threshold was changed without preprocessing
\* again: the noise count is not the count at the threshold now held
C15_Witness ==
    /\ AfterStatistics
    /\ stats.noise_sample_count #
           Count({i \in DOMAIN data["dB"] : data["dB"][i] >= threshold_db})
    /\ \E i \in DOMAIN data["dB"] :
           data["is_noise"][i] /\ data["dB"][i] < threshold_db

\* C16: a calculate_statistics that directly follows preprocess_data on a
\* non-empty series returns a record whose noise_sample_count is the number
\* of samples with level >= the threshold now held, and this record is the
\* analyzer's stats.
C16_Recompute ==
    [][(/\ last.op = "preprocess_data"
        /\ last'.op = "calculate_statistics"
        /\ ~IsNone(data)
        /\ NRows(data) >= 1)
          => /\ last'.raised = NoException
             /\ last'.ret = stats'
             /\ stats'.noise_sample_count =
                    Count({i \in DOMAIN data["dB"] : data["dB"][i] >= threshold_db})
             /\ stats'.noise_ratio_pct =
                    Rat(100 * stats'.noise_sample_count, NRows(data))]_vars

\* the analyzer built with threshold 40 holds another threshold, the flags
\* are those of the threshold now held, and the record counts a sample that
\* the threshold 40 did not count
C16_Witness ==
    /\ AfterStatistics
    /\ threshold_db # DefaultThreshold
    /\ \A i \in DOMAIN data["dB"] :
           data["is_noise"][i] <=> (data["dB"][i] >= threshold_db)
    /\ stats.noise_sample_count =
           Count({i \in DOMAIN data["dB"] : data["dB"][i] >= threshold_db})
    /\ stats.noise_sample_count #
           Count({i \in DOMAIN data["dB"] : data["dB"][i] >= DefaultThreshold})

\* C17: for every non-empty series the hourly list has exactly one entry
\* for every hour floor(i * interval / 3600) that holds a sample i and no
\* other entry, in strictly increasing order of hour, and the sizes of the
\* buckets sum to total_samples.
C17_HourlyBuckets ==
    AfterStatistics =>
        LET hq    == stats.hourly_quality
            hours == {((i - 1) * measurement_interval) \div 3600 : i \in DOMAIN data["dB"]}
        IN  /\ {hq[k].hour : k \in DOMAIN hq} = hours
            /\ Len(hq) = Cardinality(hours)
            /\ \A k \in 1..(Len(hq) - 1) : hq[k].hour < hq[k + 1].hour
            /\ SumOver([k \in DOMAIN hq |-> Count(RowsOfHour(hq[k].hour))], DOMAIN hq)
                   = stats.total_samples

\* C18: for every non-empty series the first-hour noise ratio is a number,
\* 100 * (noise samples among the first n samples) / n with
\* n = min(floor(3600 / interval), total_samples), and it equals
\* noise_ratio_pct when the series has at most floor(3600 / interval) samples.
C18_FirstHourRatio ==
    AfterStatistics =>
        LET total == stats.total_samples
            whole == 3600 \div measurement_interval
            n     == IF whole < total THEN whole ELSE total
        IN  /\ ~IsNaN(stats.first_hour_noise_ratio_pct)
            /\ stats.first_hour_noise_ratio_pct =
                   Rat(100 * Count({i \in 1..n : data["is_noise"][i]}), n)
            /\ total <= whole =>
                   stats.first_hour_noise_ratio_pct = stats.noise_ratio_pct

\* the seconds of the first two stamps of a loaded frame advance
StampsAdvance(df) ==
    /\ "time" \in DOMAIN df
    /\ Len(df["dB"]) >= 2
    /\ df["time"][1] >= 0
    /\ df["time"][2] > df["time"][1]

\* C19: measurement_interval is positive in every state, and after a
\* load_data that returned the frame it is the number of seconds from the
\* first to the second stamp when both parse and the second is later, and 1
\* otherwise (one sample, no time column, a stamp that does not parse, equal
\* or decreasing stamps).
C19_MeasurementInterval ==
    /\ measurement_interval > 0
    /\ (last.op = "load_data" /\ ~IsNone(last.ret)) =>
           /\ data = last.ret
           /\ measurement_interval =
                  IF StampsAdvance(data) THEN data["time"][2] - data["time"][1] ELSE 1

\* a loaded recording whose second stamp is earlier than the first
C19_Witness ==
    /\ last.op = "load_data"
    /\ ~IsNone(last.ret)
    /\ "time" \in DOMAIN data
    /\ NRows(data) >= 2
    /\ data["time"][2] >= 0
    /\ data["time"][2] < data["time"][1]
    /\ measurement_interval = 1

\* C20 as stated: for every window size w and every row i the smoothed
\* value is the mean of the samples of rows i - w div 2 .. i + w div 2
\* within the series.
C20_SymmetricWindow ==
    AfterPreprocess =>
        LET x == data["dB"]
            w == last.arg
        IN  \A i \in DOMAIN x :
                LET S == {j \in DOMAIN x : i - (w \div 2) <= j /\ j <= i + (w \div 2)}
                IN  data["dB_smoothed"][i] = Rat(SumOver(x, S), Count(S))

\* C20: for every window size w and every row i the smoothed value is the
\* mean of the samples of rows i - w div 2 .. i + w div 2 within the series
\* when w is odd, and of rows i - w div 2 .. i + w div 2 - 1 when w is even
\* (w rows, the additional one before row i).
C20_CenteredWindow ==
    AfterPreprocess =>
        LET x  == data["dB"]
            w  == last.arg
            hi == IF w % 2 = 1 THEN w \div 2 ELSE (w \div 2) - 1
        IN  \A i \in DOMAIN x :
                LET S == {j \in DOMAIN x : i - (w \div 2) <= j /\ j <= i + hi}
                IN  data["dB_smoothed"][i] = Rat(SumOver(x, S), Count(S))

\* two different samples smoothed with an even window
C20_Witness ==
    /\ AfterPreprocess
    /\ last.arg % 2 = 0
    /\ NRows(data) >= 2
    /\ data["dB"][1] # data["dB"][2]
    /\ data["dB_smoothed"][1] = Num(data["dB"][1])

\* C23 for the registry: the record held by the analyzer of a registered
\* condition is the record calculate_statistics returned for the analyzer's
\* data, without any field added or changed by analyze_condition.
C23_RecordNotMutated ==
    \A c \in DOMAIN results :
        /\ results[c].stats =
               Calculate(results[c].data, results[c].measurement_interval, EmptyDict).stats
        /\ "phone_usage_minutes" \notin DOMAIN results[c].stats
        /\ "game_minutes" \notin DOMAIN results[c].stats

\* the square of the sample standard deviation of the rows S of x
SampleVariance(x, S) ==
    LET k  == Count(S)
        s1 == SumOver(x, S)
        s2 == SumOver([i \in S |-> x[i] * x[i]], S)
    IN  IF k < 2 THEN NaN ELSE Rat(k * s2 - s1 * s1, k * (k - 1))

\* the rows of the centered window of 60 rows around row i: 30 before, row i
\* and 29 after, within the series
RemWindowRows(i, n) == {j \in 1..n : i - 30 <= j /\ j <= i + 29}

\* C24: after preprocess_data, is_rem[i] holds exactly when level i is
\* strictly below the mean of the series and the standard deviation over
\* the centered window of 60 rows at i is strictly between 1.5 and 4; a
\* window of one sample never flags, so a sample at or above the mean and
\* the sample of a one-sample series are not flagged, and a deviation of
\* exactly 1.5 or exactly 4 does not flag.
C24_RemFlag ==
    AfterPreprocess =>
        LET x == data["dB"]
            n == Len(x)
            total == SumOver(x, 1..n)
        IN  \A i \in 1..n :
                LET S == RemWindowRows(i, n)
                    v == SampleVariance(x, S)
                IN  /\ data["is_rem"][i] <=>
                           /\ x[i] * n < total
                           /\ Count(S) >= 2
                           /\ RLt(Rat(9, 4), v)
                           /\ RLt(v, Num(16))
                    /\ x[i] * n >= total => ~data["is_rem"][i]
                    /\ Count(S) = 1 => ~data["is_rem"][i]
                    /\ (v = Rat(9, 4) \/ v = Num(16)) => ~data["is_rem"][i]

\* a recording with a sample below the mean whose window deviates by exactly
\* 1.5 or by exactly 4
C24_Witness ==
    /\ AfterPreprocess
    /\ \E i \in DOMAIN data["dB"] :
           LET x == data["dB"]
               v == SampleVariance(x, RemWindowRows(i, Len(x)))
           IN  /\ x[i] * Len(x) < SumOver(x, 1..Len(x))
               /\ (v = Rat(9, 4) \/ v = Num(16))
               /\ ~data["is_rem"][i]

\* C25: compare_conditions, test_hypothesis1 and test_hypothesis2 leave the
\* registry as it is; on a registry of at least 2 conditions
\* compare_conditions raises nothing and returns a table with one row per
\* registered name and one column per key metric that some record holds, the
\* phone-usage column only when some condition carries phone-usage minutes.
C25_CompareTable ==
    [][last'.op \in {"compare_conditions", "test_hypothesis1", "test_hypothesis2"} =>
          /\ UNCHANGED registry_vars
          /\ (last'.op = "compare_conditions" /\ Cardinality(DOMAIN condition_stats) >= 2) =>
                 /\ last'.raised = NoException
                 /\ ~IsNone(last'.ret)
                 /\ Range(last'.ret.rows) = DOMAIN condition_stats
                 /\ Len(last'.ret.rows) = Cardinality(DOMAIN condition_stats)
                 /\ Range(last'.ret.columns) =
                        {m \in Range(KeyMetrics) :
                            \E c \in DOMAIN condition_stats :
                                /\ ~IsNone(condition_stats[c])
                                /\ m \in DOMAIN condition_stats[c]}
                 /\ Len(last'.ret.columns) = Cardinality(Range(last'.ret.columns))
                 /\ ("phone_usage_minutes" \in Range(last'.ret.columns)) <=> (WithUsage # {})]_vars

\* C27: a non-empty stats record describes the data the analyzer holds: its
\* total_samples is the length of the current data, and so is that of the
\* record print_statistics prints and generate_report writes.
C27_StatsDescribeData ==
    /\ (stats # EmptyDict /\ ~IsNone(data)) => stats.total_samples = NRows(data)
    /\ (/\ last.op = "print_statistics"
        /\ ~IsNone(last.ret)
        /\ last.ret # EmptyDict
        /\ ~IsNone(data)) => last.ret.total_samples = NRows(data)
    /\ (/\ last.op = "generate_report"
        /\ ~IsNone(last.ret)
        /\ last.ret.stats # EmptyDict
        /\ ~IsNone(data)) => last.ret.stats.total_samples = NRows(data)

\* C29: for every non-empty preprocessed series the streak lengths sum to
\* noise_sample_count; there is one streak per maximal run of noise samples,
\* each covering noise samples only and bordered on either side by a sample
\* that is not noise or by an end of the series; and
\* 0 <= avg_noise_streak_seconds <= max_noise_streak_seconds
\*   <= noise_sample_count * measurement_interval.
C29_StreakInvariants ==
    AfterStatistics =>
        LET flags  == data["is_noise"]
            runs   == locals.consecutive_noise
            starts == RunStarts(flags)
            nth(k) == CHOOSE i \in starts : Count({j \in starts : j < i}) = k - 1
        IN  /\ SumOver(runs, DOMAIN runs) = stats.noise_sample_count
            /\ Len(runs) = Count(starts)
            /\ \A k \in DOMAIN runs :
                   LET first == nth(k)
                       final == nth(k) + runs[k] - 1
                   IN  /\ runs[k] >= 1
                       /\ final <= Len(flags)
                       /\ \A j \in first..final : flags[j]
                       /\ first > 1 => ~flags[first - 1]
                       /\ final < Len(flags) => ~flags[final + 1]
            /\ RGe(stats.avg_noise_streak_seconds, Num(0))
            /\ RGe(stats.max_noise_streak_seconds, stats.avg_noise_streak_seconds)
            /\ RGe(Num(stats.noise_sample_count * measurement_interval),
                   stats.max_noise_streak_seconds)

\* statistics of a series with streaks of different lengths
C29_Witness ==
    /\ AfterStatistics
    /\ Len(locals.consecutive_noise) >= 3
    /\ Cardinality(Range(locals.consecutive_noise)) >= 2

SamplesAtOrAbove(t) == Count({i \in DOMAIN data["dB"] : data["dB"][i] >= t})

\* C21: in the menu application, whenever the analyzer holds a non-empty
\* stats record, the noise fields of the record are those of the threshold
\* the analyzer holds now; and the noise ratio show_data_info displays is the
\* ratio at the threshold it displays next to it.
C21_MenuStatsCurrent ==
    /\ (app.analyzer /\ stats # EmptyDict /\ ~IsNone(data)) =>
           /\ stats.noise_sample_count = SamplesAtOrAbove(threshold_db)
           /\ stats.noise_ratio_pct =
                  Rat(100 * SamplesAtOrAbove(threshold_db), NRows(data))
    /\ (/\ last.op = "menu_show_data_info"
        /\ ~IsNone(last.ret)
        /\ "noise_ratio_pct" \in DOMAIN last.ret
        /\ ~IsNone(data)) =>
           last.ret.noise_ratio_pct =
               Rat(100 * SamplesAtOrAbove(last.ret.threshold_db), NRows(data))

\* C22: in the web application, when the settings page has changed the
\* threshold of the session while an analyzer exists, the analysis page
\* visited next shows statistics whose noise_sample_count is the number of
\* samples at or above the newly selected threshold.
C22_WebReanalysis ==
    [][(/\ last.op = "show_settings"
        /\ last.ret.changed
        /\ app.analyzer
        /\ NRows(data) >= 1
        /\ last'.op = "show_analysis")
          => /\ last'.raised = NoException
             /\ last'.ret = stats'
             /\ stats'.noise_sample_count = SamplesAtOrAbove(app.threshold)]_vars

\* C26: when statistics are computed for a series whose first two stamps
\* advance, the interval of the analyzer is the time from the first to the
\* second stamp, and total_duration_minutes and the first-hour sample count
\* are computed with it.
C26_IntervalOnUpload ==
    (/\ last.op = "show_analysis"
     /\ last.raised = NoException
     /\ ~IsNone(last.ret)
     /\ StampsAdvance(data)) =>
        LET elapsed == data["time"][2] - data["time"][1]
            whole   == 3600 \div elapsed
        IN  /\ measurement_interval = elapsed
            /\ stats.total_duration_minutes = Rat(NRows(data) * elapsed, 60)
            /\ locals.first_hour_count =
                   IF whole < NRows(data) THEN whole ELSE NRows(data)

\* C28: in the menu application, whenever the analyzer is set it holds
\* loaded and preprocessed data, the data of the file shown as current; and
\* the analysis, hypothesis and report menus raise nothing.
C28_MenuAnalyzerHasData ==
    /\ app.analyzer =>
           /\ ~IsNone(data)
           /\ "is_noise" \in DOMAIN data
           /\ "dB_smoothed" \in DOMAIN data
           /\ app.current_file # NoFile
           /\ data["dB"] = AppFileFrame(app.current_file)["dB"]
    /\ last.op \in {"menu_analyze_data", "menu_test_hypothesis", "menu_generate_report"} =>
           last.raised = NoException

====
